---- MODULE Spec2Model ----
(***************************************************************************)
(* Model of src/main.py: the cancer-mortality dashboard.                   *)
(*                                                                         *)
(* The script loads a table (one row per state), geocodes every row's      *)
(* State, fetches the boundary features, joins the table onto the features *)
(* (the enrichment loop), builds the selector widget and the dashboard,    *)
(* and defines create_map / create_pie_chart / create_nested_bars, which   *)
(* update_components calls with a selection.                               *)
(*                                                                         *)
(* Numbers: the table's values are modelled as naturals.  A quotient that  *)
(* the code computes in floating point is kept exact, as a record          *)
(* [kind, num, den]; kind is "nan" for 0/0.  Angles are in units of a full *)
(* circle (2*pi), so three angles sum to 2*pi when their numerators sum to *)
(* their common denominator.  Floating-point rounding is not modelled.     *)
(***************************************************************************)
EXTENDS Integers, Sequences, FiniteSets, TLC

\* ------------------------------------------------------------------ bounds
\* Largest number of rows of the loaded table.
MaxRows == 2
\* Largest scale factor of a row's statistics (see Row).
MaxScale == 2

\* ----------------------------------------------------------- helper: Range
Range(s) == {s[n] : n \in DOMAIN s}

\* ------------------------------------------------------ program constants
age_columns ==
    <<"Rates.Age.< 18", "Rates.Age.18-45", "Rates.Age.45-64", "Rates.Age.> 64">>

\* type_to_name, as its keys in insertion order and the mapping itself.
type_keys ==
    <<"Types.Breast.Total", "Types.Colorectal.Total", "Types.Lung.Total">>

type_to_name ==
    ("Types.Breast.Total" :> "Breast Cancer") @@
    ("Types.Colorectal.Total" :> "Colorectal Cancer") @@
    ("Types.Lung.Total" :> "Lung Cancer")

type_palette == <<"#FAD5A5", "#7E0202", "#A36A00">>

races == <<"White", "Hispanic", "Asian", "Black", "Indigenous">>

genders == <<"Female", "Male">>

female_palette ==
    ("Hispanic" :> "#B30000") @@ ("White" :> "#7E0202") @@
    ("Indigenous" :> "#ffbfbf") @@ ("Asian" :> "#DA7070") @@
    ("Black" :> "#ce8686")

male_palette ==
    ("Hispanic" :> "#D18700") @@ ("White" :> "#754C00") @@
    ("Indigenous" :> "#FFE5B4") @@ ("Asian" :> "#FFB52E") @@
    ("Black" :> "#A36A00")

\* ------------------------------------------------------------- the inputs
\* State names a row of cancer.csv may carry.
StateNames == {"Alpha", "Beta"}

\* Names of the boundary features of the fetched GeoJSON document: two that
\* the table may hold, one it never holds, one that differs only in case.
FeatureNames == <<"Alpha", "Beta", "Gamma", "alpha">>

\* Position of a (gender, race) pair, used only to give every one of the ten
\* "Rates.Race and Sex.{gender}.{race}" columns a value of its own.
RaceIndex(race) == CHOOSE n \in DOMAIN races : races[n] = race

GenderIndex(gender) == CHOOSE n \in DOMAIN genders : genders[n] = gender

\* One row of the table.  Every column the script reads is present; the
\* values grow with the scale k, k = 0 being a state with no recorded cases.
\* The ten "Rates.Race and Sex.{gender}.{race}" columns are held under the
\* key "Rates.Race and Sex", indexed by gender and race.
Row(name, k) ==
    ("State" :> name) @@
    ("Total.Number" :> 50 * k) @@
    ("Total.Population" :> 500 * k) @@
    ("Rates.Age.< 18" :> k) @@
    ("Rates.Age.18-45" :> 2 * k) @@
    ("Rates.Age.45-64" :> 3 * k) @@
    ("Rates.Age.> 64" :> 4 * k) @@
    ("Types.Breast.Total" :> 15 * k) @@
    ("Types.Colorectal.Total" :> 5 * k) @@
    ("Types.Lung.Total" :> 5 * k) @@
    ("Rates.Race and Sex" :>
        [g \in Range(genders) |->
            [r \in Range(races) |->
                k * (RaceIndex(r) + Len(races) * (GenderIndex(g) - 1))]])

Rows == {Row(name, k) : name \in StateNames, k \in 0..MaxScale}

\* The tables pd.read_csv may return: one to MaxRows rows, duplicates of a
\* State allowed.
Tables == UNION {[1..n -> Rows] : n \in 1..MaxRows}

\* ------------------------------------------------------------------ state
VARIABLES
    data,            \* the DataFrame `data`: a sequence of rows
    geocoded,        \* results of the per-row geocode_state calls of line 30
    features,        \* states_geojson['features']: each feature's properties
    j,               \* position of the enrichment loop in features
    pc,              \* position of the script
    state_selector,  \* state_selector.value
    views            \* what the dashboard shows: update_components' result

vars == <<data, geocoded, features, j, pc, state_selector, views>>

\* Nothing is shown before the dashboard has rendered update_components.
NotRendered == [status |-> "none"]

Init ==
    /\ data \in Tables
    /\ geocoded = <<>>
    /\ features = <<>>
    /\ j = 1
    /\ pc = "geocode"
    /\ state_selector = "All"
    /\ views = NotRendered

\* ---------------------------------------------------------------- geocoding
\* Python's None.
None == [none |-> TRUE]

\* ox.geocode(state_name) when it succeeds: a (latitude, longitude) pair that
\* depends on the name alone.
ox_geocode(state_name) == <<[lat_of |-> state_name], [lon_of |-> state_name]>>

\* Mutation of geocode_state: the except clause re-raises.
geocode_state_reraise(state_name, ok) ==
    IF ok
    THEN [raised |-> FALSE,
          value |-> <<ox_geocode(state_name)[1], ox_geocode(state_name)[2]>>]
    ELSE [raised |-> TRUE, value |-> <<None, None>>]

\* geocode_state(state_name); ok tells whether ox.geocode returned or threw.
\* The result says whether an exception leaves the function, and the value
\* returned otherwise.
geocode_state(state_name, ok) ==
    IF ok
    THEN [raised |-> FALSE,
          value |-> <<ox_geocode(state_name)[1], ox_geocode(state_name)[2]>>]
    ELSE [raised |-> FALSE, value |-> <<None, None>>]

\* Line 30, one row at a time: data['State'].apply(lambda x: geocode_state(x)).
\* An exception leaving geocode_state would end the script.
geocode_row ==
    /\ pc = "geocode"
    /\ Len(geocoded) < Len(data)
    /\ \E ok \in BOOLEAN :
        LET r == geocode_state(data[Len(geocoded) + 1]["State"], ok) IN
        IF r.raised
        THEN /\ pc' = "crashed"
             /\ UNCHANGED geocoded
        ELSE /\ geocoded' = Append(geocoded, r.value)
             /\ UNCHANGED pc
    /\ UNCHANGED <<data, features, j, state_selector, views>>

\* Line 30, the assignment: .apply(pd.Series) splits the pairs into the two
\* new columns Latitude and Longitude.
assign_latlon ==
    /\ pc = "geocode"
    /\ Len(geocoded) = Len(data)
    /\ data' = [n \in DOMAIN data |->
                   ("Latitude" :> geocoded[n][1]) @@
                   ("Longitude" :> geocoded[n][2]) @@ data[n]]
    /\ pc' = "fetch"
    /\ UNCHANGED <<geocoded, features, j, state_selector, views>>

\* Lines 34-35: the boundary document, one feature per name.
fetch_geojson ==
    /\ pc = "fetch"
    /\ features' = [n \in DOMAIN FeatureNames |-> [name |-> FeatureNames[n]]]
    /\ j' = 1
    /\ pc' = "enrich"
    /\ UNCHANGED <<data, geocoded, state_selector, views>>

\* --------------------------------------------------------------- enrichment
\* Mutation of state_data: the last matching row instead of the first.
state_data_last(state_name) ==
    LET matching == SelectSeq(data, LAMBDA row : row["State"] = state_name) IN
    IF matching # <<>>
    THEN [found |-> TRUE, row |-> matching[Len(matching)]]
    ELSE [found |-> FALSE]

\* Line 41: data[data['State'] == state_name].iloc[0] if the filtered frame is
\* not empty, else None (found = FALSE).
state_data(state_name) ==
    LET matching == SelectSeq(data, LAMBDA row : row["State"] = state_name) IN
    IF matching # <<>>
    THEN [found |-> TRUE, row |-> matching[1]]
    ELSE [found |-> FALSE]

\* Lines 40-45, the body of the loop for one feature's properties.
EnrichFeature(properties) ==
    LET sd == state_data(properties["name"]) IN
    [col \in Range(age_columns) |->
        IF sd.found /\ col \in DOMAIN sd.row THEN sd.row[col] ELSE 0] @@
    ("Total.Population" :> IF sd.found THEN sd.row["Total.Population"] ELSE 0) @@
    ("Total.Number" :> IF sd.found THEN sd.row["Total.Number"] ELSE 0) @@
    properties

\* Lines 39-45: one iteration of the loop over states_geojson['features'].
enrich_feature ==
    /\ pc = "enrich"
    /\ j <= Len(features)
    /\ features' = [features EXCEPT ![j] = EnrichFeature(@)]
    /\ j' = j + 1
    /\ pc' = IF j = Len(features) THEN "widgets" ELSE "enrich"
    /\ UNCHANGED <<data, geocoded, state_selector, views>>

\* --------------------------------------------------------------- arithmetic
\* Series.sum() of one column of a frame.
RECURSIVE SumColumn(_, _)
SumColumn(df, col) ==
    IF df = <<>> THEN 0 ELSE df[1][col] + SumColumn(Tail(df), col)

\* Series.sum() of the column "Rates.Race and Sex.{gender}.{race}".
RECURSIVE SumRaceSex(_, _, _)
SumRaceSex(df, gender, race) ==
    IF df = <<>> THEN 0
    ELSE df[1]["Rates.Race and Sex"][gender][race]
         + SumRaceSex(Tail(df), gender, race)

\* A number that needs no division.
Whole(a) == [kind |-> "finite", num |-> a, den |-> 1]

\* a / b in floating point, for a >= 0 and b >= 0: 0/0 is not-a-number and
\* a/0 is infinite, neither raises (numpy and pandas semantics).
Divide(a, b) ==
    IF b # 0 THEN [kind |-> "finite", num |-> a, den |-> b]
    ELSE IF a = 0 THEN [kind |-> "nan", num |-> 0, den |-> 0]
    ELSE [kind |-> "inf", num |-> a, den |-> 0]

\* int(x) of a quotient: truncation toward zero; int() of a not-a-number or
\* of an infinity raises.
int(x) ==
    IF x.kind = "finite"
    THEN [raised |-> FALSE, value |-> x.num \div x.den]
    ELSE [raised |-> TRUE, value |-> 0]

\* ---------------------------------------------------------------- create_map
\* Lines 55-113.  The map shows every feature of states_geojson and, for a
\* selection other than 'All', the first feature of that name (if any) with
\* the dashed outline.
create_map(selected_state) ==
    LET named == SelectSeq(features,
                           LAMBDA feat : feat["name"] = selected_state)
        state_geo == IF named # <<>> THEN <<named[1]>> ELSE <<>>
    IN  [geo_data |-> features,
         highlight |-> IF selected_state # "All" THEN state_geo ELSE <<>>]

\* ---------------------------------------------------------- create_pie_chart
\* Lines 117-120: the frame the pie chart aggregates.
pie_df(selected_state) ==
    IF selected_state # "All"
    THEN SelectSeq(data, LAMBDA row : row["State"] = selected_state)
    ELSE data

\* Mutation of pie_num_states: the number of rows, len(df).
pie_num_rows(df) == Len(df)

\* Line 122: len(df['State'].unique()).
pie_num_states(df) == Cardinality({df[n]["State"] : n \in DOMAIN df})

\* Lines 133-139: the count of one cancer-type column.
pie_count(df, typ, selected_state) ==
    IF selected_state = "All"
    THEN int(Divide(SumColumn(df, typ), pie_num_states(df)))
    ELSE int(Whole(SumColumn(df, typ)))

\* Lines 116-148: the data of the pie chart (data_for_pie), or the exception.
create_pie_chart(selected_state) ==
    LET df == pie_df(selected_state)
        counted == [n \in DOMAIN type_keys |->
                       pie_count(df, type_keys[n], selected_state)]
        counts == [n \in DOMAIN type_keys |-> counted[n].value]
        total == SumColumn([n \in DOMAIN counts |-> [c |-> counts[n]]], "c")
    IN  IF \E n \in DOMAIN counted : counted[n].raised
        THEN [raised |-> TRUE]
        ELSE [raised |-> FALSE,
              df |-> df,
              cancer_types |-> [n \in DOMAIN type_keys |->
                                   type_to_name[type_keys[n]]],
              counts |-> counts,
              angle |-> [n \in DOMAIN counts |-> Divide(counts[n], total)],
              color |-> SubSeq(type_palette, 1, Len(type_keys))]

\* -------------------------------------------------------- create_nested_bars
\* Mutation of bars_df: the filter on the selected state is left out.
bars_df_unfiltered(selected_state) == data

\* Lines 198-201: the frame the bar chart aggregates.
bars_df(selected_state) ==
    IF selected_state # "All"
    THEN SelectSeq(data, LAMBDA row : row["State"] = selected_state)
    ELSE data

\* Line 203: len(df['State'].unique()).
bars_num_states(df) == Cardinality({df[n]["State"] : n \in DOMAIN df})

\* Mutation of bars_average: the quotient truncated as the pie chart's is.
bars_average_truncated(count, num_states) == Whole(count \div num_states)

\* Line 210: count /= num_states.
bars_average(count, num_states) == Divide(count, num_states)

\* Mutation of bar_color: the two palettes exchanged.
bar_color_exchanged(gender, race) ==
    IF gender = "Male" THEN female_palette[race] ELSE male_palette[race]

\* Line 215: the color of a bar.
bar_color(gender, race) ==
    IF gender = "Male" THEN male_palette[race] ELSE female_palette[race]

\* Lines 208-210: the count of one (gender, race) column.
bars_count(df, gender, race, selected_state) ==
    IF selected_state = "All" /\ bars_num_states(df) > 0
    THEN bars_average(SumRaceSex(df, gender, race), bars_num_states(df))
    ELSE Whole(SumRaceSex(df, gender, race))

\* Lines 197-218: the rows of the bar chart, race-major and gender-minor as
\* the nested loops append them.
create_nested_bars(selected_state) ==
    LET df == bars_df(selected_state) IN
    [df |-> df,
     rows |-> [n \in 1..(Len(races) * Len(genders)) |->
        LET race == races[((n - 1) \div Len(genders)) + 1]
            gender == genders[((n - 1) % Len(genders)) + 1]
        IN  [Gender |-> gender,
             Race |-> race,
             Count |-> bars_count(df, gender, race, selected_state),
             Color |-> bar_color(gender, race)]]]

\* --------------------------------------------------------- update_components
\* Lines 241-244: the value update_components returns, or the exception of
\* create_pie_chart, which leaves before create_nested_bars is called.
update_components(selected_state) ==
    LET map_html == create_map(selected_state)
        pie == create_pie_chart(selected_state)
    IN  IF pie.raised
        THEN [status |-> "raised", selected_state |-> selected_state]
        ELSE [status |-> "ok",
              selected_state |-> selected_state,
              map |-> map_html,
              pie |-> pie,
              bars |-> create_nested_bars(selected_state)]

\* Line 238: pn.depends(state_selector.param.value) is evaluated as a
\* statement and the decorator it returns is dropped, so update_components
\* is declared to depend on no parameter.
update_components_depends == {}

\* Line 51: the options of the dropdown (order is display only).
state_options == {"All"} \cup {data[n]["State"] : n \in DOMAIN data}

\* Lines 49-52 and 247-251: the selector starts at 'All'; the dashboard
\* column holds update_components, which it can evaluate with the selector's
\* value only through a declared dependency.
build_dashboard ==
    /\ pc = "widgets"
    /\ state_selector' = "All"
    /\ views' = IF "value" \in update_components_depends
                THEN update_components("All")
                ELSE NotRendered
    /\ pc' = "ready"
    /\ UNCHANGED <<data, geocoded, features, j>>

\* The user picks another option of the dropdown: the widget's value changes
\* and every function that declared a dependency on it is evaluated again.
select_state(selected_state) ==
    /\ pc = "ready"
    /\ selected_state \in state_options
    /\ selected_state # state_selector
    /\ state_selector' = selected_state
    /\ views' = IF "value" \in update_components_depends
                THEN update_components(selected_state)
                ELSE views
    /\ UNCHANGED <<data, geocoded, features, j, pc>>

\* The selections update_components is applied to: 'All' and every feature
\* name, among them names no row of the table carries.
Selections == {"All"} \cup Range(FeatureNames)

\* Mutation of call_update_components: the frame is filtered in place, so
\* the global table loses the rows of the other states.
call_update_components_in_place(selected_state) ==
    /\ pc = "ready"
    /\ views' = update_components(selected_state)
    /\ data' = pie_df(selected_state)
    /\ UNCHANGED <<geocoded, features, j, pc, state_selector>>

\* update_components applied to a selection, as the recomputation of a
\* selection change does: the three views are rebuilt, nothing else changes.
call_update_components(selected_state) ==
    /\ pc = "ready"
    /\ views' = update_components(selected_state)
    /\ UNCHANGED <<data, geocoded, features, j, pc, state_selector>>

\* ------------------------------------------------------------ specifications
Load ==
    \/ geocode_row
    \/ assign_latlon
    \/ fetch_geojson
    \/ enrich_feature
    \/ build_dashboard

\* The script and the functions it defines, applied to every selection.
Next ==
    \/ Load
    \/ \E s \in state_options : select_state(s)
    \/ \E s \in Selections : call_update_components(s)

Spec == Init /\ [][Next]_vars

\* The dashboard as the script wires it: loading, then selection changes.
NextDashboard ==
    \/ Load
    \/ \E s \in state_options : select_state(s)

SpecDashboard == Init /\ [][NextDashboard]_vars

\* ------------------------------------------------------ what the claims use
\* The rows of the table whose State is name, by position.
MatchingRows(name) == {n \in DOMAIN data : data[n]["State"] = name}

\* The rows a selection stands for.
SelectedRows(sel) == IF sel = "All" THEN DOMAIN data ELSE MatchingRows(sel)

\* The k-th smallest member of a set of positions.
Nth(S, k) == CHOOSE n \in S : Cardinality({m \in S : m < n}) = k - 1

\* The sum of value[n] over the positions n of S.
RECURSIVE SumOver(_, _)
SumOver(S, value) ==
    IF S = {} THEN 0
    ELSE LET n == CHOOSE n \in S : TRUE IN value[n] + SumOver(S \ {n}, value)

TypeTotal(S, typ) == SumOver(S, [n \in DOMAIN data |-> data[n][typ]])

RaceSexTotal(S, gender, race) ==
    SumOver(S, [n \in DOMAIN data |->
                   data[n]["Rates.Race and Sex"][gender][race]])

DistinctStates == Cardinality({data[n]["State"] : n \in DOMAIN data})

EnrichmentDone == pc \in {"widgets", "ready"}

Rendered == views.status = "ok"

FeatureNamed(name) ==
    features[CHOOSE n \in DOMAIN features : features[n]["name"] = name]

\* C1: after the enrichment loop every feature carries Total.Number,
\* Total.Population and the four age rates of the first row of the table
\* whose State equals its name exactly, and 0 for all six when no row does.
C1_EnrichmentJoin ==
    EnrichmentDone =>
        \A f \in DOMAIN features :
            LET properties == features[f]
                rows == MatchingRows(properties["name"])
                copied == {"Total.Number", "Total.Population"}
                              \cup Range(age_columns)
            IN  IF rows # {}
                THEN \A col \in copied :
                        properties[col] = data[Nth(rows, 1)][col]
                ELSE \A col \in copied : properties[col] = 0

\* C1 witness: the table Alpha (100 deaths, population 1000), Beta (50, 500)
\* joined onto features Alpha, Beta, Gamma: Alpha 100/1000, Gamma 0/0.
C1_Witness ==
    /\ EnrichmentDone
    /\ Len(data) = 2
    /\ data[1]["State"] = "Alpha" /\ data[1]["Total.Number"] = 100
    /\ data[2]["State"] = "Beta" /\ data[2]["Total.Number"] = 50
    /\ FeatureNamed("Alpha")["Total.Number"] = 100
    /\ FeatureNamed("Alpha")["Total.Population"] = 1000
    /\ FeatureNamed("Beta")["Total.Number"] = 50
    /\ FeatureNamed("Gamma")["Total.Number"] = 0
    /\ FeatureNamed("Gamma")["Total.Population"] = 0
    /\ FeatureNamed("alpha")["Total.Number"] = 0

\* A pie angle that is exactly zero.
ZeroAngle(a) == a.kind = "finite" /\ a.num = 0

\* Three angles that make a full circle.
FullCircle(angle) ==
    /\ \A n \in DOMAIN angle :
          angle[n].kind = "finite" /\ angle[n].den = angle[1].den
    /\ SumOver(DOMAIN angle, [n \in DOMAIN angle |-> angle[n].num])
          = angle[1].den

\* C2 (as claimed): for 'All' or a state of the table the pie data has the
\* three records Breast, Colorectal, Lung in that order, and their angles
\* make a full circle, or are all 0 when the three counts sum to 0.
C2_PieAnglesOrZero ==
    (views.status # "none" /\ views.selected_state \in state_options) =>
        /\ Rendered
        /\ views.pie.cancer_types
              = <<"Breast Cancer", "Colorectal Cancer", "Lung Cancer">>
        /\ Len(views.pie.counts) = 3
        /\ Len(views.pie.angle) = 3
        /\ LET total == SumOver(DOMAIN views.pie.counts, views.pie.counts) IN
           IF total = 0
           THEN \A n \in DOMAIN views.pie.angle : ZeroAngle(views.pie.angle[n])
           ELSE FullCircle(views.pie.angle)

\* C3 (as claimed): for every table and every selection, a state no row
\* carries included, both aggregations end without an exception and without
\* a not-a-number, and an empty subset gives counts that are all 0.
C3_NoRaiseNoNaN ==
    views.status # "none" =>
        /\ Rendered
        /\ \A n \in DOMAIN views.pie.angle : views.pie.angle[n].kind = "finite"
        /\ \A n \in DOMAIN views.bars.rows :
              views.bars.rows[n].Count.kind = "finite"
        /\ SelectedRows(views.selected_state) = {} =>
              /\ \A n \in DOMAIN views.pie.counts : views.pie.counts[n] = 0
              /\ \A n \in DOMAIN views.bars.rows :
                    views.bars.rows[n].Count.num = 0

\* C4: the pie count of each cancer-type column is, under 'All', the sum of
\* the column over all rows divided by the number of distinct State values,
\* truncated; for a state it is the sum over that state's rows, undivided.
C4_PieCounts ==
    Rendered =>
        \A n \in DOMAIN type_keys :
            views.pie.counts[n] =
                IF views.selected_state = "All"
                THEN TypeTotal(DOMAIN data, type_keys[n]) \div DistinctStates
                ELSE TypeTotal(MatchingRows(views.selected_state), type_keys[n])

\* C4 witness: 'All' over two distinct states whose sums 45, 15, 15 do not
\* divide evenly: the counts are 22, 7, 7.
C4_Witness ==
    /\ Rendered
    /\ views.selected_state = "All"
    /\ DistinctStates = 2
    /\ TypeTotal(DOMAIN data, "Types.Breast.Total") = 45
    /\ TypeTotal(DOMAIN data, "Types.Lung.Total") = 15
    /\ views.pie.counts = <<22, 7, 7>>

\* C5: the bar data has exactly 10 records, one for each pair of
\* {Female, Male} x {White, Hispanic, Asian, Black, Indigenous}, none twice,
\* each coloured by its race's entry in its gender's palette.
C5_TenBars ==
    Rendered =>
        LET rows == views.bars.rows IN
        /\ Len(rows) = 10
        /\ \A g \in {"Female", "Male"} :
           \A r \in {"White", "Hispanic", "Asian", "Black", "Indigenous"} :
              Cardinality({n \in DOMAIN rows :
                              rows[n].Gender = g /\ rows[n].Race = r}) = 1
        /\ \A n \in DOMAIN rows :
              rows[n].Color = IF rows[n].Gender = "Male"
                              THEN male_palette[rows[n].Race]
                              ELSE female_palette[rows[n].Race]

\* C5 witness: the bars of a state of the table, with Male/Asian in the male
\* palette's colour and Female/Asian in the female palette's.
C5_Witness ==
    /\ Rendered
    /\ views.selected_state \in state_options \ {"All"}
    /\ \E n, m \in DOMAIN views.bars.rows :
          /\ views.bars.rows[n].Gender = "Male"
          /\ views.bars.rows[n].Race = "Asian"
          /\ views.bars.rows[n].Color = "#FFB52E"
          /\ views.bars.rows[m].Gender = "Female"
          /\ views.bars.rows[m].Race = "Asian"
          /\ views.bars.rows[m].Color = "#DA7070"

\* C6 (as claimed): under 'All' every bar count is the column sum divided by
\* the number of distinct states with truncation, the value the pie chart's
\* rule gives for that sum and that number of states.
C6_BarsTruncatedAverage ==
    (Rendered /\ views.selected_state = "All") =>
        \A n \in DOMAIN views.bars.rows :
            LET row == views.bars.rows[n]
                total == RaceSexTotal(DOMAIN data, row.Gender, row.Race)
            IN  /\ row.Count.kind = "finite"
                /\ row.Count.num = (total \div DistinctStates) * row.Count.den

\* C6 (amended): under 'All' every bar count is the exact quotient of the
\* column sum by the number of distinct states, not truncated; the pie
\* chart's rule gives the integer part of it, so the two agree exactly when
\* the sum is a multiple of the number of states.
C6_BarsExactAverage ==
    (Rendered /\ views.selected_state = "All") =>
        \A n \in DOMAIN views.bars.rows :
            LET row == views.bars.rows[n]
                total == RaceSexTotal(DOMAIN data, row.Gender, row.Race)
                pie_rule == int(Divide(total, pie_num_states(data))).value
            IN  /\ row.Count.kind = "finite"
                /\ row.Count.num * DistinctStates = total * row.Count.den
                /\ pie_rule = row.Count.num \div row.Count.den
                /\ (pie_rule * row.Count.den = row.Count.num)
                       <=> (total % DistinctStates = 0)

\* C6 witness: 'All' over two states with a bar whose count is not whole.
C6_Witness ==
    /\ Rendered
    /\ views.selected_state = "All"
    /\ DistinctStates = 2
    /\ \E n \in DOMAIN views.bars.rows :
          /\ views.bars.rows[n].Count.den = 2
          /\ views.bars.rows[n].Count.num % 2 = 1

\* C7: for 'All' or a state of the table, the pie chart and the bar chart
\* aggregate the same rows: all of the table under 'All', and exactly the
\* rows whose State is the selection otherwise, in table order.
C7_SameRowSubset ==
    (Rendered /\ views.selected_state \in state_options) =>
        LET rows == SelectedRows(views.selected_state)
            df == views.pie.df
        IN  /\ views.bars.df = df
            /\ Len(df) = Cardinality(rows)
            /\ \A k \in DOMAIN df : df[k] = data[Nth(rows, k)]
            /\ views.selected_state = "All" => df = data

\* C7 witness: a table of two states, one of them selected: one row is
\* kept by both charts and the other left out.
C7_Witness ==
    /\ Rendered
    /\ views.selected_state \in state_options \ {"All"}
    /\ DistinctStates = 2
    /\ Len(views.pie.df) = 1
    /\ Len(views.bars.df) = 1
    /\ views.pie.df[1]["State"] = views.selected_state

\* C8 (as claimed): every change of the dropdown to S rebuilds the map, the
\* pie chart and the bar chart with S, so the views shown are those of the
\* current selection.
C8_ChangeRecomputes ==
    [][state_selector' # state_selector =>
          /\ views'.status = "ok"
          /\ views'.selected_state = state_selector']_vars

\* The value geocode_state may leave for a row: the resolved pair or the
\* (None, None) sentinel.
ResolvedOrSentinel(pair, state_name) ==
    \/ pair = <<None, None>>
    \/ pair = ox_geocode(state_name)

\* C9: a failure inside geocode_state never leaves it; the row gets
\* (None, None), the pass goes on to the rows after it, and when the pass
\* is over every row holds a resolved pair or the sentinel.
C9_GeocodeNeverPropagates ==
    /\ pc # "crashed"
    /\ \A n \in DOMAIN geocoded :
          ResolvedOrSentinel(geocoded[n], data[n]["State"])
    /\ pc # "geocode" =>
          \A n \in DOMAIN data :
              ResolvedOrSentinel(<<data[n]["Latitude"], data[n]["Longitude"]>>,
                                 data[n]["State"])

\* C9 witness: the first row's geocoding failed and the second row was
\* geocoded all the same.
C9_Witness ==
    /\ pc # "geocode"
    /\ Len(data) = 2
    /\ <<data[1]["Latitude"], data[1]["Longitude"]>> = <<None, None>>
    /\ <<data[2]["Latitude"], data[2]["Longitude"]>>
          = ox_geocode(data[2]["State"])

\* C10: once the dashboard is up, no selection change and no recomputation
\* of the three views runs the enrichment again or changes the table's rows
\* or a feature's properties.
C10_EnrichmentOnce ==
    [][pc = "ready" =>
          /\ pc' = "ready"
          /\ j' = j
          /\ data' = data
          /\ features' = features]_vars

\* C10 witness: the selector and the views have moved to a state of the
\* table while its feature still holds the enriched, non-zero values.
C10_Witness ==
    /\ pc = "ready"
    /\ Rendered
    /\ state_selector # "All"
    /\ views.selected_state = state_selector
    /\ FeatureNamed(state_selector)["Total.Number"]
          = data[Nth(MatchingRows(state_selector), 1)]["Total.Number"]
    /\ FeatureNamed(state_selector)["Total.Number"] > 0

====
